---- MODULE Spec2Model ----
(***************************************************************************)
(* Orchestration pipeline of the Chief-of-Staff core                       *)
(* (chief_of_staff_core: classifier -> planner -> dispatcher -> quality    *)
(* gate -> composer), one request at a time.                               *)
(*                                                                         *)
(* Abstractions:                                                           *)
(*  - the clock Date.now() is the variable now; time passes only while a   *)
(*    capability agent's call is pending (0..MaxLatency per call);         *)
(*  - a data payload (type any) is a record of the properties the code     *)
(*    looks at: its JavaScript kind, and for objects the content, post     *)
(*    and datetime properties;                                             *)
(*  - a request text is the record of the features the classifier's        *)
(*    regular expressions extract from it.                                 *)
(***************************************************************************)
EXTENDS Integers, Sequences, FiniteSets, TLC

\* ------------------------------------------------------------------ bounds
\* value of Date.now() when the request is submitted
StartTime == 10
\* longest time one agent call takes
MaxLatency == 1
\* largest number of people a request text names
MaxPeople == 3

\* ------------------------------------------------------------ core types
Capability == {"google", "microsoft", "linkedin", "content", "task"}

AgentType == {"chief", "interpreter", "qa"} \cup Capability

Statuses == {"success", "error", "pending", "requires_input"}

\* an optional string or flag that is not set
Undefined == "undefined"

\* ------------------------------------------------------------- payloads
\* kind: "null" (null, undefined), "falsy" (0, '', false, NaN),
\*       "scalar" (any other non-object), "object"
\* content: "none" or the class of the content property's text
\* post: length of the post property, -1 when absent
\* datetime: the datetime property as a timestamp, -1 when absent
MkData(kind, content, post, datetime) ==
  [kind |-> kind, content |-> content, post |-> post, datetime |-> datetime]

NullData == MkData("null", "none", -1, -1)

\* the value of a context key that is not present
Absent == MkData("absent", "none", -1, -1)

\* JavaScript truthiness of a payload: `response.data`, `result.data`
Truthy(data) == data.kind \in {"scalar", "object"}

\* LinkedIn character limit
LinkedInLimit == 3000

ContentClasses == {"none", "safe", "keyword", "ssn", "card16"}

\* the payloads the capability agents of the model return
Payloads ==
  { NullData,
    MkData("falsy", "none", -1, -1),
    MkData("scalar", "none", -1, -1),
    MkData("object", "safe", -1, -1),
    MkData("object", "card16", -1, -1),
    MkData("object", "keyword", -1, -1),
    MkData("object", "ssn", -1, -1),
    MkData("object", "none", -1, StartTime) }

\* every payload the quality gate can be handed
AllPayloads ==
  { NullData, MkData("falsy", "none", -1, -1), MkData("scalar", "none", -1, -1) }
  \cup { MkData("object", c, p, d) :
           c \in ContentClasses,
           p \in {-1, LinkedInLimit, LinkedInLimit + 1},
           d \in {-1} \cup ((StartTime - 1) .. (StartTime + 1)) }

\* ------------------------------------------------------------ responses
createResponse(agentType, status, data, error, t) ==
  [ id |-> agentType \o "_" \o ToString(t),
    status |-> status,
    data |-> data,
    error |-> error,
    validation_passed |-> Undefined,
    processing_time |-> t ]

\* ----------------------------------------------------------- classifier
\* the ordered rule list of parseIntent: <<name, weight in percent>>
IntentRules ==
  << [name |-> "schedule_meeting", weight |-> 90],
     [name |-> "email_action", weight |-> 80],
     [name |-> "linkedin_action", weight |-> 80],
     [name |-> "task_management", weight |-> 70],
     [name |-> "search_action", weight |-> 60],
     [name |-> "content_creation", weight |-> 70] >>

\* a request text: which rule patterns match it, which platform keyword
\* groups occur in it, how many people it names, whether it has a date or
\* a time token; isString is false for a task that is not a string
Texts ==
  [ isString : BOOLEAN,
    matches : SUBSET (1 .. Len(IntentRules)),
    platforms : SUBSET {"google", "microsoft", "linkedin"},
    people : 0 .. MaxPeople,
    date : BOOLEAN,
    time : BOOLEAN ]

\* mutant: the last rule that matches wins
LastMatch(matches, i) ==
  IF matches \cap (i .. Len(IntentRules)) = {} THEN 0
  ELSE CHOOSE k \in matches \cap (i .. Len(IntentRules)) :
         \A j \in matches \cap (i .. Len(IntentRules)) : j <= k

\* the loop of parseIntent from rule i on: the first rule whose pattern
\* matches, 0 when there is none
RECURSIVE FirstMatch(_, _)
FirstMatch(matches, i) ==
  IF i > Len(IntentRules) THEN 0
  ELSE IF i \in matches THEN i
  ELSE FirstMatch(matches, i + 1)

parseIntent(text) ==
  LET i == FirstMatch(text.matches, 1) IN
  IF i = 0 THEN [name |-> "general_query", confidence |-> 50]
  ELSE [name |-> IntentRules[i].name, confidence |-> IntentRules[i].weight]

identifyPlatforms(text) == text.platforms

\* mutant: two people already count
assessComplexityFromTwo(intent, text, platforms) ==
  LET c1 == IF Cardinality(platforms) > 1 THEN 2 ELSE 0
      c2 == IF text.people >= 2 THEN 1 ELSE 0
      c3 == IF intent.name \in {"schedule_meeting", "content_creation"} THEN 1 ELSE 0
      c4 == IF text.date \/ text.time THEN 1 ELSE 0
      complexity == c1 + c2 + c3 + c4
  IN IF complexity >= 3 THEN "high"
     ELSE IF complexity >= 1 THEN "medium"
     ELSE "low"

assessComplexity(intent, text, platforms) ==
  LET c1 == IF Cardinality(platforms) > 1 THEN 2 ELSE 0
      c2 == IF text.people > 2 THEN 1 ELSE 0
      c3 == IF intent.name \in {"schedule_meeting", "content_creation"} THEN 1 ELSE 0
      c4 == IF text.date \/ text.time THEN 1 ELSE 0
      complexity == c1 + c2 + c3 + c4
  IN IF complexity >= 3 THEN "high"
     ELSE IF complexity >= 1 THEN "medium"
     ELSE "low"

NoIntent ==
  [intent |-> "none", confidence |-> 0, platforms |-> {}, complexity |-> "low"]

\* InterpreterAgent.process: the UserIntent, or the error Response of the
\* catch block when the text is not a string (input.match throws)
InterpreterProcess(text) ==
  IF ~text.isString
  THEN [status |-> "error", intent |-> NoIntent]
  ELSE LET intent == parseIntent(text)
           platforms == identifyPlatforms(text)
       IN [ status |-> "success",
            intent |-> [ intent |-> intent.name,
                         confidence |-> intent.confidence,
                         platforms |-> platforms,
                         complexity |-> assessComplexity(intent, text, platforms) ] ]

\* -------------------------------------------------------------- planner
\* mutant: google alone is planned whenever google was detected
SchedulingAgentsFirst(platforms) ==
  IF "google" \in platforms THEN <<"google">> ELSE <<"microsoft">>

\* the agents of the schedule_meeting entry of the plan table
SchedulingAgents(platforms) ==
  IF "google" \in platforms /\ "microsoft" \in platforms
  THEN <<"google", "microsoft">>
  ELSE IF "google" \in platforms
  THEN <<"google">> ELSE <<"microsoft">>

\* mutant: every scheduling plan runs its agents one after the other
SchedulingSequential(platforms) == FALSE

\* the parallel flag of the schedule_meeting entry of the plan table
SchedulingParallel(platforms) == TRUE

\* mutant: an intent without an entry in the table gets an empty plan
createExecutionPlanNoDefault(intent) ==
  CASE intent.intent = "schedule_meeting" ->
         [ agents |-> SchedulingAgents(intent.platforms),
           parallel |-> SchedulingParallel(intent.platforms) ]
    [] intent.intent = "email_action" ->
         [ agents |-> <<"content",
                        IF "google" \in intent.platforms THEN "google" ELSE "microsoft">>,
           parallel |-> FALSE ]
    [] intent.intent = "linkedin_action" ->
         [ agents |-> <<"content", "linkedin">>, parallel |-> FALSE ]
    [] intent.intent = "task_management" ->
         [ agents |-> <<"task">>, parallel |-> FALSE ]
    [] intent.intent = "content_creation" ->
         [ agents |-> <<"content">>, parallel |-> FALSE ]
    [] OTHER -> [ agents |-> <<>>, parallel |-> FALSE ]

createExecutionPlan(intent) ==
  CASE intent.intent = "schedule_meeting" ->
         [ agents |-> SchedulingAgents(intent.platforms),
           parallel |-> SchedulingParallel(intent.platforms) ]
    [] intent.intent = "email_action" ->
         [ agents |-> <<"content",
                        IF "google" \in intent.platforms THEN "google" ELSE "microsoft">>,
           parallel |-> FALSE ]
    [] intent.intent = "linkedin_action" ->
         [ agents |-> <<"content", "linkedin">>, parallel |-> FALSE ]
    [] intent.intent = "task_management" ->
         [ agents |-> <<"task">>, parallel |-> FALSE ]
    [] intent.intent = "content_creation" ->
         [ agents |-> <<"content">>, parallel |-> FALSE ]
    [] OTHER -> [ agents |-> <<"content">>, parallel |-> FALSE ]

\* --------------------------------------------------------- quality gate
Issue(type, message, severity) ==
  [type |-> type, message |-> message, severity |-> severity]

\* mutant: the pattern of the social security number is not in the list
checkContentSafetyNoSSN(content) ==
  IF content \in {"keyword", "card16"}
  THEN [safe |-> FALSE, reason |-> "Potentially sensitive information detected"]
  ELSE [safe |-> TRUE, reason |-> Undefined]

\* QualityAgent.checkContentSafety on the class of a content text
checkContentSafety(content) ==
  IF content \in {"keyword", "ssn", "card16"}
  THEN [safe |-> FALSE, reason |-> "Potentially sensitive information detected"]
  ELSE [safe |-> TRUE, reason |-> Undefined]

SelectHigh(issue) == issue.severity = "high"

\* mutant: any issue blocks
PassedNoIssue(issues) == Len(issues) = 0

\* the pass rule of validateOutput
Passed(issues) == Len(SelectSeq(issues, SelectHigh)) = 0

\* mutant: a time that is not in the future is refused
ScheduledNotAfter(scheduledTime, t) == scheduledTime <= t

\* the comparison of the scheduled time with the current time
ScheduledBefore(scheduledTime, t) == scheduledTime < t

\* QualityAgent.validateOutput at time t.  Reading a property of null or
\* undefined throws a TypeError: threw is TRUE and the rest is not used.
validateOutput(data, sourceAgent, t) ==
  LET structure ==
        IF data.kind # "object"
        THEN <<Issue("structure", "Invalid data structure received", "high")>>
        ELSE <<>>
      safety ==
        IF data.kind = "object" /\ data.content # "none"
             /\ ~checkContentSafety(data.content).safe
        THEN <<Issue("safety",
                     "Content safety issue: " \o checkContentSafety(data.content).reason,
                     "high")>>
        ELSE <<>>
      overLimit == sourceAgent = "linkedin" /\ data.post > 0 /\ data.post > LinkedInLimit
      platform ==
        IF overLimit
        THEN <<Issue("platform_limit", "LinkedIn post exceeds character limit", "medium")>>
        ELSE <<>>
      temporal ==
        IF data.datetime # -1 /\ ScheduledBefore(data.datetime, t)
        THEN <<Issue("temporal", "Scheduled time is in the past", "high")>>
        ELSE <<>>
      issues == structure \o safety \o platform \o temporal
  IN [ threw |-> data.kind = "null",
       passed |-> Passed(issues),
       issues |-> issues,
       recommendations |->
         IF overLimit THEN <<"Trim content to under 3000 characters">> ELSE <<>> ]

\* QualityAgent.process for a request whose context is {data, sourceAgent}
QualityProcess(data, sourceAgent, t) ==
  LET validation == validateOutput(data, sourceAgent, t) IN
  IF validation.threw
  THEN createResponse("qa", "error", NullData,
                      "Cannot read properties of null", t)
  ELSE createResponse("qa", "success",
                      [ validation_passed |-> validation.passed,
                        validation_result |-> validation,
                        approved_data |-> IF validation.passed THEN data ELSE NullData ],
                      Undefined, t)

\* the test of validateResults that sends a Response to the gate
Eligible(result) == result.status = "success" /\ Truthy(result.data)

\* the source agent validateResults puts into the validation request
ValidationSource(slot) == "unknown"

\* mutant: a rejected Response keeps its status
GateRewriteKeepStatus(result, validationResult) ==
  IF validationResult.status = "success" /\ validationResult.data.validation_passed
  THEN [result EXCEPT !.validation_passed = "true",
                      !.data = validationResult.data.approved_data]
  ELSE [result EXCEPT !.validation_passed = "false"]

\* what validateResults pushes for a Response the gate has answered
GateRewrite(result, validationResult) ==
  IF validationResult.status = "success" /\ validationResult.data.validation_passed
  THEN [result EXCEPT !.validation_passed = "true",
                      !.data = validationResult.data.approved_data]
  ELSE [result EXCEPT !.status = "error",
                      !.error = "Validation failed",
                      !.validation_passed = "false"]

\* ------------------------------------------------------------- composer
RECURSIVE Join(_, _)
\* Array.prototype.join: an undefined element is the empty string
Join(strs, sep) ==
  IF Len(strs) = 0 THEN ""
  ELSE LET h == IF Head(strs) = Undefined THEN "" ELSE Head(strs) IN
       IF Len(strs) = 1 THEN h ELSE h \o sep \o Join(Tail(strs), sep)

\* mutant: whatever is not an error counts as a success
IsNotError(r) == r.status # "error"

IsSuccess(r) == r.status = "success"
IsError(r) == r.status = "error"

MapData(rs) == [i \in 1 .. Len(rs) |-> rs[i].data]
MapError(rs) == [i \in 1 .. Len(rs) |-> rs[i].error]

RECURSIVE SumTime(_)
SumTime(rs) ==
  IF Len(rs) = 0 THEN 0 ELSE Head(rs).processing_time + SumTime(Tail(rs))

generateSuccessMessage(intent) ==
  CASE intent = "schedule_meeting" -> "Meeting successfully scheduled across all platforms"
    [] intent = "email_action" -> "Email drafted and sent successfully"
    [] intent = "linkedin_action" -> "LinkedIn post created and scheduled"
    [] intent = "task_management" -> "Task created and organized"
    [] intent = "content_creation" -> "Content generated successfully"
    [] OTHER -> "Task completed successfully"

\* mutant: partial_results takes the data of every Response
composeAllData(rs, intent) ==
  LET successfulResults == SelectSeq(rs, IsSuccess)
      errors == SelectSeq(rs, IsError)
  IN IF Len(errors) > 0
     THEN [ success |-> FALSE,
            message |-> "Some operations failed: " \o Join(MapError(errors), ", "),
            partial_results |-> MapData(rs),
            intent |-> intent.intent ]
     ELSE [ success |-> TRUE,
            message |-> generateSuccessMessage(intent.intent),
            results |-> MapData(successfulResults),
            intent |-> intent.intent,
            processing_summary |->
              [ total_agents |-> Len(rs),
                total_time |-> SumTime(rs),
                complexity |-> intent.complexity ] ]

composeFinalResponse(rs, intent) ==
  LET successfulResults == SelectSeq(rs, IsSuccess)
      errors == SelectSeq(rs, IsError)
  IN IF Len(errors) > 0
     THEN [ success |-> FALSE,
            message |-> "Some operations failed: " \o Join(MapError(errors), ", "),
            partial_results |-> MapData(successfulResults),
            intent |-> intent.intent ]
     ELSE [ success |-> TRUE,
            message |-> generateSuccessMessage(intent.intent),
            results |-> MapData(successfulResults),
            intent |-> intent.intent,
            processing_summary |->
              [ total_agents |-> Len(rs),
                total_time |-> SumTime(rs),
                complexity |-> intent.complexity ] ]

\* ---------------------------------------------------------------- state
VARIABLES
  agents,            \* ChiefOfStaffAgent.agents: the registered agent types
  now,               \* Date.now()
  pc,                \* where ChiefOfStaffAgent.process stands
  message,           \* the original envelope: [id, context]
  userIntent,        \* the classified UserIntent
  plan,              \* the execution plan
  calls,             \* per plan slot: the delegateToAgent call
  order,             \* the slots of a parallel plan in completion order
  idx,               \* sequential loop: the slot being executed
  currentContext,    \* sequential loop: currentContext
  results,           \* what executeWorkflow returns
  gateLog,           \* the validation requests sent to the gate, in order
  validatedResults,  \* validateResults: the list being built
  final,             \* the AgentResponse that process returns
  reply,             \* what processUserRequest has returned to the host
  userInput,         \* the request text, when the run fixes it beforehand
  conversationHistory, \* ChiefOfStaffAgent.conversationHistory: the ids stored
  integrated         \* the database-backed integrated system around the core

vars == << agents, now, pc, message, userIntent, plan, calls, order, idx,
           currentContext, results, gateLog, validatedResults, final, reply, userInput,
                  conversationHistory, integrated >>

\* a context: the caller's own keys, and the reserved key previousResult
MkContext(other, previousResult) ==
  [other |-> other, previousResult |-> previousResult]

EmptyContext == MkContext("none", Absent)

\* the contexts a caller puts into the original envelope: {} (as
\* ChiefOfStaffSystem.processUserRequest does) and one that already has
\* keys, a previousResult among them
OrigContexts ==
  { EmptyContext, MkContext("set", MkData("object", "safe", LinkedInLimit, -1)) }

NoEnvelope == [id |-> "none", context |-> EmptyContext]

NoResponse == createResponse("chief", "pending", NullData, Undefined, 0)

NoCall ==
  [ state |-> "idle", envelope |-> NoEnvelope, startTime |-> 0, endTime |-> 0,
    invocations |-> 0, response |-> NoResponse ]

NoPlan == [agents |-> <<>>, parallel |-> FALSE]

NoFinal == createResponse("chief", "pending", NullData, Undefined, 0)

\* the request text is not fixed: it is chosen when the interpreter answers
NoText ==
  [ isString |-> TRUE, matches |-> {}, platforms |-> {}, people |-> 0,
    date |-> FALSE, time |-> FALSE ]

\* the integrated system has not been constructed
NoIntegrated ==
  [ init |-> "none", loaded |-> 0, chiefOfStaff |-> FALSE,
    created |-> {}, registry |-> {},
    request |-> "none", conversation |-> "none", pending |-> {},
    current |-> "none", reached |-> {}, error |-> "none",
    outcome |-> [status |-> "none"], served |-> 0 ]

\* nothing has been returned to the host yet
NoReply == [status |-> "none"]

\* new Date().toISOString() at time t
toISOString(t) == "iso_" \o ToString(t)

\* ChiefOfStaffSystemIntegrated.processUserRequest: what the host receives
\* when the awaited call has returned response (threw = FALSE) or has
\* rejected with errorMessage (threw = TRUE)
IntegratedProcessUserRequest(threw, response, errorMessage, t) ==
  IF ~threw
  THEN [ id |-> response.id,
         status |-> response.status,
         data |-> response.data,
         error |-> response.error,
         validation_passed |-> response.validation_passed,
         processing_time |-> response.processing_time,
         timestamp |-> toISOString(t) ]
  ELSE [ success |-> FALSE,
         message |-> "I encountered an error processing your request. Please try again.",
         error |-> errorMessage ]

\* what a capability agent can answer: [status, data, error]
AgentOutcomes(agentType) ==
  { [status |-> "success", data |-> d, error |-> Undefined] : d \in Payloads }
  \cup
  { [status |-> "error", data |-> NullData, error |-> agentType \o " failed"],
    [status |-> "error", data |-> MkData("object", "safe", -1, -1),
     error |-> agentType \o " rejected"],
    [status |-> "pending", data |-> NullData, error |-> Undefined],
    [status |-> "requires_input", data |-> MkData("object", "safe", -1, -1),
     error |-> Undefined] }

\* the capability agents a host has registered before the request: none
\* (ChiefOfStaffSystem), task and content with the connected platforms
\* (the integrated system), or platform agents only
Registries ==
  { {} }
  \cup { {"task", "content"} \cup s : s \in SUBSET {"google", "microsoft", "linkedin"} }
  \cup ((SUBSET {"google", "microsoft", "linkedin"}) \ { {} })

Init ==
  /\ agents \in { {"interpreter", "qa"} \cup reg : reg \in Registries }
  /\ now = StartTime
  /\ pc = "idle"
  /\ message = NoEnvelope
  /\ userIntent = NoIntent
  /\ plan = NoPlan
  /\ calls = <<>>
  /\ order = <<>>
  /\ idx = 0
  /\ currentContext = EmptyContext
  /\ results = <<>>
  /\ gateLog = <<>>
  /\ validatedResults = <<>>
  /\ final = NoFinal
  /\ reply = NoReply
  /\ userInput = NoText
  /\ conversationHistory = {}
  /\ integrated = NoIntegrated

\* mutant: process files the envelope under its id
RecordedById(history, envelope) == history \cup {envelope.id}

\* the conversation history after process has taken an envelope: the map is
\* created by the constructor and read by getConversationHistory, process
\* stores nothing in it
Recorded(history, envelope) == history

\* ChiefOfStaffAgent.process is entered with an envelope and calls the
\* interpreter
Submit ==
  /\ pc = "idle"
  /\ \E ctx \in OrigContexts :
       message' = [id |-> "msg_" \o ToString(now), context |-> ctx]
  /\ pc' = "interpret"
  /\ conversationHistory' = Recorded(conversationHistory, message')
  /\ UNCHANGED << agents, now, userIntent, plan, calls, order, idx,
                  currentContext, results, gateLog, validatedResults, final, reply, userInput,
                  integrated >>

\* mutant: process goes on with whatever the interpreter has answered
InterpreterAnswersAnyway(text) ==
  /\ pc = "interpret"
  /\ LET r == InterpreterProcess(text) IN
       /\ userIntent' = r.intent
       /\ plan' = createExecutionPlan(r.intent)
       /\ calls' = [i \in 1 .. Len(plan'.agents) |-> NoCall]
       /\ idx' = 1
       /\ currentContext' = message.context
       /\ pc' = "dispatch"
       /\ UNCHANGED final
  /\ UNCHANGED << agents, now, message, order, results, gateLog, validatedResults, reply, userInput,
                  conversationHistory, integrated >>

\* the interpreter answers; on success the plan is made and executeWorkflow
\* starts
InterpreterAnswers(text) ==
  /\ pc = "interpret"
  /\ LET r == InterpreterProcess(text) IN
       /\ IF r.status # "success"
          THEN /\ final' = createResponse("chief", "error", NullData,
                                          "Failed to interpret user input", now)
               /\ pc' = "done"
               /\ UNCHANGED << userIntent, plan, calls, idx, currentContext >>
          ELSE /\ userIntent' = r.intent
               /\ plan' = createExecutionPlan(r.intent)
               /\ calls' = [i \in 1 .. Len(plan'.agents) |-> NoCall]
               /\ idx' = 1
               /\ currentContext' = message.context
               /\ pc' = "dispatch"
               /\ UNCHANGED final
  /\ UNCHANGED << agents, now, message, order, results, gateLog, validatedResults, reply, userInput,
                  conversationHistory, integrated >>

\* mutant: a missing agent is reported as a pending Response
NotFoundPending(agentType, t) ==
  createResponse("chief", "pending", NullData, Undefined, t)

\* delegateToAgent for an agent type that is not registered
NotFoundResponse(agentType, t) ==
  createResponse("chief", "error", NullData, "Agent " \o agentType \o " not found", t)

\* mutant: the time createResponse has set is left in the Response
MeasuredNot(agentType, outcome, startTime, t) ==
  createResponse(agentType, outcome.status, outcome.data, outcome.error, t)

\* delegateToAgent: the Response of a registered agent, with the measured time
Measured(agentType, outcome, startTime, t) ==
  [ createResponse(agentType, outcome.status, outcome.data, outcome.error, t)
      EXCEPT !.processing_time = t - startTime ]

\* mutant: the payload is chained whatever the status of the Response
ChainAnyStatus(context, response) ==
  IF Truthy(response.data)
  THEN [context EXCEPT !.previousResult = response.data]
  ELSE context

\* executeWorkflow, sequential: the context of the next envelope
ChainContext(context, response) ==
  IF response.status = "success" /\ Truthy(response.data)
  THEN [context EXCEPT !.previousResult = response.data]
  ELSE context

\* mutant: the loop stops at the first error Response
SeqMoreUntilError(i, rs, p) ==
  i <= Len(p.agents) /\ (IF Len(rs) = 0 THEN TRUE ELSE rs[Len(rs)].status # "error")

\* executeWorkflow, sequential: the loop goes on while plan slots are left
SeqMore(i, rs, p) == i <= Len(p.agents)

\* mutant: a call that was answered with an error is made again
SettledUnlessError(response) ==
  IF response.status = "error" THEN "idle" ELSE "returned"

\* delegateToAgent: once agent.process has answered, the call is over and
\* the Response is returned, whatever its status
Settled(response) == "returned"

\* the catch block of process
Caught(errorMessage, t) == createResponse("chief", "error", NullData, errorMessage, t)

\* the texts of the requests that go through the whole pipeline: no rule,
\* one rule or every rule matching, with no platform, one platform or both
\* calendar platforms named, with or without a time
RequestTexts ==
  [ isString : BOOLEAN,
    matches : { {} } \cup { {i} : i \in 1 .. Len(IntentRules) }
                \cup { 1 .. Len(IntentRules) },
    platforms : { {}, {"google"}, {"google", "microsoft"} },
    people : {0},
    date : {FALSE},
    time : BOOLEAN ]

\* the interpreter answers for the text of the request
InterpreterReturns ==
  /\ pc = "interpret"
  /\ \E text \in RequestTexts : InterpreterAnswers(text)

\* ------------------------------------------- executeWorkflow, sequential
\* the loop body reaches delegateToAgent for a registered agent
SeqDelegate ==
  /\ pc = "dispatch" /\ ~plan.parallel
  /\ SeqMore(idx, results, plan)
  /\ calls[idx].state = "idle"
  /\ plan.agents[idx] \in agents
  /\ calls' = [calls EXCEPT ![idx] =
                 [ state |-> "running",
                   envelope |-> [id |-> message.id, context |-> currentContext],
                   startTime |-> now,
                   endTime |-> 0,
                   invocations |-> calls[idx].invocations + 1,
                   response |-> NoResponse ]]
  /\ UNCHANGED << agents, now, pc, message, userIntent, plan, order, idx,
                  currentContext, results, gateLog, validatedResults, final, reply, userInput,
                  conversationHistory, integrated >>

\* the loop body reaches delegateToAgent for an agent type not registered
SeqNotFound ==
  /\ pc = "dispatch" /\ ~plan.parallel
  /\ SeqMore(idx, results, plan)
  /\ calls[idx].state = "idle"
  /\ plan.agents[idx] \notin agents
  /\ LET response == NotFoundResponse(plan.agents[idx], now) IN
       /\ calls' = [calls EXCEPT ![idx] =
                      [ state |-> "notfound",
                        envelope |-> NoEnvelope,
                        startTime |-> now,
                        endTime |-> now,
                        invocations |-> calls[idx].invocations,
                        response |-> response ]]
       /\ results' = Append(results, response)
       /\ currentContext' = ChainContext(currentContext, response)
  /\ idx' = idx + 1
  /\ UNCHANGED << agents, now, pc, message, userIntent, plan, order,
                  gateLog, validatedResults, final, reply, userInput,
                  conversationHistory, integrated >>

\* the running agent returns a Response
SeqAgentReturns ==
  /\ pc = "dispatch" /\ ~plan.parallel
  /\ SeqMore(idx, results, plan)
  /\ calls[idx].state = "running"
  /\ \E outcome \in AgentOutcomes(plan.agents[idx]), d \in 0 .. MaxLatency :
       LET response == Measured(plan.agents[idx], outcome, calls[idx].startTime, now + d) IN
       /\ now' = now + d
       /\ calls' = [calls EXCEPT ![idx].state = Settled(response),
                                 ![idx].endTime = now',
                                 ![idx].response = response]
       /\ results' = Append(results, response)
       /\ currentContext' = ChainContext(currentContext, response)
  /\ idx' = idx + 1
  /\ UNCHANGED << agents, pc, message, userIntent, plan, order,
                  gateLog, validatedResults, final, reply, userInput,
                  conversationHistory, integrated >>

\* the running agent throws: the catch block of process answers
SeqAgentThrows ==
  /\ pc = "dispatch" /\ ~plan.parallel
  /\ SeqMore(idx, results, plan)
  /\ calls[idx].state = "running"
  /\ \E d \in 0 .. MaxLatency :
       /\ now' = now + d
       /\ final' = Caught(plan.agents[idx] \o " threw", now')
  /\ calls' = [calls EXCEPT ![idx].state = "threw", ![idx].endTime = now']
  /\ pc' = "done"
  /\ UNCHANGED << agents, message, userIntent, plan, order, idx,
                  currentContext, results, gateLog, validatedResults, reply, userInput,
                  conversationHistory, integrated >>

\* mutant: executeWorkflow returns with the first Response
SeqReturnEarly ==
  /\ pc = "dispatch" /\ ~plan.parallel
  /\ (Len(results) >= 1 \/ ~SeqMore(idx, results, plan))
  /\ pc' = "validate"
  /\ UNCHANGED << agents, now, message, userIntent, plan, calls, order, idx,
                  currentContext, results, gateLog, validatedResults, final, reply, userInput,
                  conversationHistory, integrated >>

\* the loop is over: executeWorkflow returns results
SeqReturn ==
  /\ pc = "dispatch" /\ ~plan.parallel
  /\ ~SeqMore(idx, results, plan)
  /\ pc' = "validate"
  /\ UNCHANGED << agents, now, message, userIntent, plan, calls, order, idx,
                  currentContext, results, gateLog, validatedResults, final, reply, userInput,
                  conversationHistory, integrated >>

\* --------------------------------------------- executeWorkflow, parallel
\* plan.agents.map(...): every delegateToAgent call is made
ParLaunch ==
  /\ pc = "dispatch" /\ plan.parallel
  /\ \A i \in DOMAIN calls : calls[i].state = "idle"
  /\ calls' = [i \in DOMAIN calls |->
                 IF plan.agents[i] \in agents
                 THEN [ state |-> "running",
                        envelope |-> [id |-> message.id, context |-> message.context],
                        startTime |-> now,
                        endTime |-> 0,
                        invocations |-> calls[i].invocations + 1,
                        response |-> NoResponse ]
                 ELSE [ state |-> "notfound",
                        envelope |-> NoEnvelope,
                        startTime |-> now,
                        endTime |-> now,
                        invocations |-> calls[i].invocations,
                        response |-> NotFoundResponse(plan.agents[i], now) ]]
  /\ UNCHANGED << agents, now, pc, message, userIntent, plan, order, idx,
                  currentContext, results, gateLog, validatedResults, final, reply, userInput,
                  conversationHistory, integrated >>

\* a running agent returns a Response (also after Promise.all has rejected)
ParAgentReturns(i) ==
  /\ pc \in {"dispatch", "done"} /\ plan.parallel
  /\ calls[i].state = "running"
  /\ \E outcome \in AgentOutcomes(plan.agents[i]), d \in 0 .. MaxLatency :
       LET response == Measured(plan.agents[i], outcome, calls[i].startTime, now + d) IN
       /\ now' = now + d
       /\ calls' = [calls EXCEPT
                      ![i].state = Settled(response),
                      ![i].endTime = now',
                      ![i].response = response]
  /\ order' = Append(order, i)
  /\ UNCHANGED << agents, pc, message, userIntent, plan, idx,
                  currentContext, results, gateLog, validatedResults, final, reply, userInput,
                  conversationHistory, integrated >>

\* a running agent throws: Promise.all rejects at once and the catch block
\* of process answers
ParAgentThrows(i) ==
  /\ pc \in {"dispatch", "done"} /\ plan.parallel
  /\ calls[i].state = "running"
  /\ \E d \in 0 .. MaxLatency :
       /\ now' = now + d
       /\ IF pc = "dispatch"
          THEN final' = Caught(plan.agents[i] \o " threw", now') /\ pc' = "done"
          ELSE UNCHANGED << final, pc >>
  /\ calls' = [calls EXCEPT ![i].state = "threw", ![i].endTime = now']
  /\ UNCHANGED << agents, message, userIntent, plan, order, idx,
                  currentContext, results, gateLog, validatedResults, reply, userInput,
                  conversationHistory, integrated >>

\* mutant: the Responses in the order in which the agents completed
JoinByCompletion(cs, completion) ==
  [i \in DOMAIN cs |->
     IF i <= Len(completion) THEN cs[completion[i]].response ELSE cs[i].response]

\* Promise.all: the Responses in the order of the promises
JoinResults(cs, completion) == [i \in DOMAIN cs |-> cs[i].response]

\* mutant: the join is over with the first promise that is fulfilled
AnyFulfilled(cs) == \E i \in DOMAIN cs : cs[i].state \in {"returned", "notfound"}

\* Promise.all is fulfilled when every promise is
AllFulfilled(cs) == \A i \in DOMAIN cs : cs[i].state \in {"returned", "notfound"}

\* every promise is fulfilled: executeWorkflow returns
ParJoin ==
  /\ pc = "dispatch" /\ plan.parallel
  /\ AllFulfilled(calls)
  /\ results' = JoinResults(calls, order)
  /\ pc' = "validate"
  /\ UNCHANGED << agents, now, message, userIntent, plan, calls, order, idx,
                  currentContext, gateLog, validatedResults, final, reply, userInput,
                  conversationHistory, integrated >>

\* -------------------------------------------------------- validateResults
\* mutant: the gate is asked, and the result is pushed as it was
ValidateGateUnheeded ==
  /\ pc = "validate"
  /\ Len(validatedResults) < Len(results)
  /\ LET slot == Len(validatedResults) + 1
         result == results[slot]
         validationResult ==
           [ QualityProcess(result.data, ValidationSource(slot), now)
               EXCEPT !.processing_time = 0 ]
     IN /\ Eligible(result)
        /\ gateLog' = Append(gateLog,
                             [ slot |-> slot,
                               data |-> result.data,
                               sourceAgent |-> ValidationSource(slot),
                               response |-> validationResult ])
        /\ validatedResults' = Append(validatedResults, result)
  /\ UNCHANGED << agents, now, pc, message, userIntent, plan, calls, order, idx,
                  currentContext, results, final, reply, userInput,
                  conversationHistory, integrated >>

\* the next result goes to the quality gate
ValidateGate ==
  /\ pc = "validate"
  /\ Len(validatedResults) < Len(results)
  /\ LET slot == Len(validatedResults) + 1
         result == results[slot]
         validationResult ==
           [ QualityProcess(result.data, ValidationSource(slot), now)
               EXCEPT !.processing_time = 0 ]
     IN /\ Eligible(result)
        /\ gateLog' = Append(gateLog,
                             [ slot |-> slot,
                               data |-> result.data,
                               sourceAgent |-> ValidationSource(slot),
                               response |-> validationResult ])
        /\ validatedResults' = Append(validatedResults,
                                      GateRewrite(result, validationResult))
  /\ UNCHANGED << agents, now, pc, message, userIntent, plan, calls, order, idx,
                  currentContext, results, final, reply, userInput,
                  conversationHistory, integrated >>

\* mutant: the result that is not sent to the gate is pushed in a new
\* Response of the orchestrator
ValidateBypassRewrapped ==
  /\ pc = "validate"
  /\ Len(validatedResults) < Len(results)
  /\ LET result == results[Len(validatedResults) + 1] IN
       /\ ~Eligible(result)
       /\ validatedResults' =
            Append(validatedResults,
                   createResponse("chief", result.status, result.data, result.error, now))
  /\ UNCHANGED << agents, now, pc, message, userIntent, plan, calls, order, idx,
                  currentContext, results, gateLog, final, reply, userInput,
                  conversationHistory, integrated >>

\* the next result is pushed as it is
ValidateBypass ==
  /\ pc = "validate"
  /\ Len(validatedResults) < Len(results)
  /\ LET result == results[Len(validatedResults) + 1] IN
       /\ ~Eligible(result)
       /\ validatedResults' = Append(validatedResults, result)
  /\ UNCHANGED << agents, now, pc, message, userIntent, plan, calls, order, idx,
                  currentContext, results, gateLog, final, reply, userInput,
                  conversationHistory, integrated >>

\* --------------------------------------------------- composeFinalResponse
Compose ==
  /\ pc = "validate"
  /\ Len(validatedResults) = Len(results)
  /\ final' = createResponse("chief", "success",
                             composeFinalResponse(validatedResults, userIntent),
                             Undefined, now)
  /\ pc' = "done"
  /\ UNCHANGED << agents, now, message, userIntent, plan, calls, order, idx,
                  currentContext, results, gateLog, validatedResults, reply, userInput,
                  conversationHistory, integrated >>

\* ------------------------------------------------- the system boundary
\* ChiefOfStaffSystem.processUserRequest returns what process has returned
\* (process has answered every throw itself, so the awaited call never
\* rejects) and ChiefOfStaffSystemIntegrated.processUserRequest returns to
\* the host
ProcessUserRequestReturns ==
  /\ pc = "done"
  /\ reply = NoReply
  /\ reply' = IntegratedProcessUserRequest(FALSE, final, Undefined, now)
  /\ UNCHANGED << agents, now, pc, message, userIntent, plan, calls, order, idx,
                  currentContext, results, gateLog, validatedResults, final,
                  userInput,
                  conversationHistory, integrated >>

Next ==
  \/ Submit
  \/ InterpreterReturns
  \/ SeqDelegate
  \/ SeqNotFound
  \/ SeqAgentReturns
  \/ SeqAgentThrows
  \/ SeqReturn
  \/ ParLaunch
  \/ \E i \in DOMAIN calls : ParAgentReturns(i)
  \/ \E i \in DOMAIN calls : ParAgentThrows(i)
  \/ ParJoin
  \/ ValidateGate
  \/ ValidateBypass
  \/ Compose
  \/ ProcessUserRequestReturns

Spec == Init /\ [][Next]_vars

\* a host that has registered the task, content and calendar agents
LiveInit ==
  /\ Init
  /\ agents = {"interpreter", "qa", "task", "content", "google", "microsoft"}

\* every agent that was invoked completes (returns or throws) and every
\* continuation of the request is run
SpecLive == LiveInit /\ [][Next]_vars /\ WF_vars(Next)

\* ------------------------------------------------ the quality gate alone
\* QualityAgent.process is called with a validation request of any content,
\* at any time
Sources == {"unknown", "linkedin"}

GateInit ==
  /\ agents = {"interpreter", "qa"}
  /\ now \in StartTime .. (StartTime + MaxLatency)
  /\ pc = "gate"
  /\ message = NoEnvelope
  /\ userIntent = NoIntent
  /\ plan = NoPlan
  /\ calls = <<>>
  /\ order = <<>>
  /\ idx = 0
  /\ currentContext = EmptyContext
  /\ results = <<>>
  /\ gateLog = <<>>
  /\ validatedResults = <<>>
  /\ final = NoFinal
  /\ reply = NoReply
  /\ userInput = NoText
  /\ conversationHistory = {}
  /\ integrated = NoIntegrated

GateCheck ==
  /\ pc = "gate"
  /\ \E data \in AllPayloads, sourceAgent \in Sources :
       gateLog' = << [ slot |-> 0,
                       data |-> data,
                       sourceAgent |-> sourceAgent,
                       response |-> QualityProcess(data, sourceAgent, now) ] >>
  /\ UNCHANGED << agents, now, pc, message, userIntent, plan, calls, order, idx,
                  currentContext, results, validatedResults, final, reply, userInput,
                  conversationHistory, integrated >>

GateNext == GateCheck

SpecGate == GateInit /\ [][GateNext]_vars

\* ------------------------------------- the classifier and the planner
\* ChiefOfStaffAgent.process is called with every request text: the
\* interpreter classifies it and the planner plans for the UserIntent
ClassifyInit ==
  /\ agents = {"interpreter", "qa"}
  /\ now = StartTime
  /\ pc = "interpret"
  /\ message = [id |-> "msg_" \o ToString(now), context |-> EmptyContext]
  /\ userIntent = NoIntent
  /\ plan = NoPlan
  /\ calls = <<>>
  /\ order = <<>>
  /\ idx = 0
  /\ currentContext = EmptyContext
  /\ results = <<>>
  /\ gateLog = <<>>
  /\ validatedResults = <<>>
  /\ final = NoFinal
  /\ reply = NoReply
  /\ userInput \in Texts
  /\ conversationHistory = {}
  /\ integrated = NoIntegrated

Classify == InterpreterAnswers(userInput)

ClassifyNext == Classify

SpecClassify == ClassifyInit /\ [][ClassifyNext]_vars

TypeOK ==
  /\ pc \in {"idle", "interpret", "dispatch", "validate", "done"}
  /\ now \in StartTime .. (StartTime + 2 * MaxLatency)
  /\ Len(results) <= Len(plan.agents)

\* =================================================================
\* Properties
\* =================================================================

\* executeWorkflow has returned its list to process
WorkflowReturned == pc = "validate" \/ (pc = "done" /\ final.status = "success")

Dispatching == pc \in {"dispatch", "validate", "done"} /\ Len(plan.agents) > 0

\* the call of slot i has reached the agent's process method
Invoked(i) == calls[i].state \in {"running", "returned", "threw"}

\* the call of slot i has given the dispatcher a Response
Answered(i) == calls[i].state \in {"returned", "notfound"}

Times == StartTime .. (StartTime + 2 * MaxLatency)

\* the Response was made by the agent of that type (its id says so)
MadeBy(response, agentType) ==
  \E t \in Times : response.id = agentType \o "_" \o ToString(t)

\* C1: in a sequential plan the agents run one at a time in plan order
\* (slot k+1 is not started before the Response of slot k is in the list),
\* every planned agent is invoked whatever the status of the earlier
\* Responses, and the list returned has one Response per slot, in plan order.
C1_SequentialOrder ==
  (Dispatching /\ ~plan.parallel) =>
    /\ \A k \in DOMAIN calls :
         calls[k].state # "idle" =>
           \A j \in 1 .. (k - 1) :
             /\ Answered(j)
             /\ j <= Len(results)
             /\ results[j] = calls[j].response
    /\ Cardinality({k \in DOMAIN calls : calls[k].state = "running"}) <= 1
    /\ WorkflowReturned =>
         /\ Len(results) = Len(plan.agents)
         /\ \A i \in DOMAIN calls :
              /\ results[i] = calls[i].response
              /\ plan.agents[i] \in agents =>
                   calls[i].state = "returned" /\ MadeBy(results[i], plan.agents[i])

\* a sequential plan of two registered agents has returned, the first agent
\* having answered with an error
C1_Witness ==
  /\ WorkflowReturned /\ ~plan.parallel
  /\ Len(plan.agents) = 2
  /\ calls[1].state = "returned" /\ results[1].status = "error"
  /\ calls[2].state = "returned" /\ calls[2].startTime >= calls[1].endTime

\* C2 as stated: a success Response of agent k always binds previousResult
\* to its data in the context of agent k+1; an error Response leaves the
\* context as agent k received it; the first agent gets the original context.
C2_Original ==
  (Dispatching /\ ~plan.parallel) =>
    \A k \in DOMAIN calls :
      Invoked(k) =>
        /\ k = 1 => calls[k].envelope.context = message.context
        /\ (k > 1 /\ calls[k - 1].state = "returned") =>
             LET received == calls[k - 1].envelope.context
                 response == results[k - 1]
             IN /\ response.status = "success" =>
                     calls[k].envelope.context =
                       MkContext(received.other, response.data)
                /\ response.status = "error" =>
                     calls[k].envelope.context = received

\* C2 (amended): the payload is chained only when agent k returned
\* status=success with a data payload that is not empty (truthy); in every
\* other case, success with null or empty data included, agent k+1 receives
\* exactly the context agent k received.
C2_Chaining ==
  (Dispatching /\ ~plan.parallel) =>
    \A k \in DOMAIN calls :
      Invoked(k) =>
        /\ k = 1 => calls[k].envelope.context = message.context
        /\ (k > 1 /\ calls[k - 1].state = "returned") =>
             LET received == calls[k - 1].envelope.context
                 response == results[k - 1]
             IN IF response.status = "success"
                     /\ response.data.kind \in {"scalar", "object"}
                THEN calls[k].envelope.context =
                       MkContext(received.other, response.data)
                ELSE calls[k].envelope.context = received

\* the second agent of a sequential plan has received the payload of the
\* first in place of the previousResult the caller had put in the context
C2_Witness ==
  /\ Dispatching /\ ~plan.parallel /\ Len(plan.agents) = 2
  /\ calls[1].state = "returned"
  /\ results[1].status = "success" /\ results[1].data.kind = "object"
  /\ Invoked(2)
  /\ calls[2].envelope.context.previousResult = results[1].data
  /\ calls[1].envelope.context.previousResult # results[1].data
  /\ message.context.previousResult.kind = "object"

\* C3: in a parallel plan all agents are launched together, each with the
\* original envelope; the dispatcher returns only when all have answered,
\* and slot i of its list is the Response of the i-th planned agent
\* whatever the completion order.
C3_ParallelFanIn ==
  (Dispatching /\ plan.parallel) =>
    /\ (\E i \in DOMAIN calls : calls[i].state # "idle") =>
         (\A i \in DOMAIN calls : calls[i].state # "idle")
    /\ \A i \in DOMAIN calls :
         Invoked(i) =>
           /\ calls[i].envelope = [id |-> message.id, context |-> message.context]
           /\ \A j \in DOMAIN calls : calls[j].startTime = calls[i].startTime
    /\ WorkflowReturned =>
         /\ Len(results) = Len(plan.agents)
         /\ \A i \in DOMAIN calls :
              /\ Answered(i)
              /\ results[i] = calls[i].response
              /\ plan.agents[i] \in agents => MadeBy(results[i], plan.agents[i])

\* a parallel plan has returned after its second agent completed before its
\* first
C3_Witness ==
  /\ WorkflowReturned /\ plan.parallel
  /\ Len(plan.agents) = 2
  /\ order = <<2, 1>>
  /\ calls[2].endTime < calls[1].endTime
  /\ results[1] # results[2]

\* C4: a planned capability that is not registered gets a synthetic error
\* Response ('Agent <name> not found') in its slot and no agent is invoked
\* for it; every registered agent of the plan is invoked all the same and
\* its Response is in its own slot.
C4_UnregisteredSlot ==
  Dispatching =>
    /\ \A i \in DOMAIN calls :
         plan.agents[i] \notin agents =>
           /\ ~Invoked(i)
           /\ calls[i].envelope = NoEnvelope
    /\ WorkflowReturned =>
         \A i \in DOMAIN calls :
           IF plan.agents[i] \notin agents
           THEN /\ calls[i].state = "notfound"
                /\ results[i].status = "error"
                /\ results[i].error = "Agent " \o plan.agents[i] \o " not found"
                /\ results[i].data = NullData
           ELSE /\ calls[i].state = "returned"
                /\ results[i] = calls[i].response
                /\ MadeBy(results[i], plan.agents[i])

\* a plan of two slots has returned: one slot's capability was missing, the
\* other slot's agent ran after it and answered
C4_Witness ==
  /\ WorkflowReturned /\ Len(plan.agents) = 2
  /\ plan.agents[1] \notin agents /\ calls[1].state = "notfound"
  /\ plan.agents[2] \in agents /\ calls[2].state = "returned"
  /\ results[2].status = "success"

\* the gate's answer says the validation passed
GatePassed(entry) ==
  entry.response.status = "success" /\ entry.response.data.validation_passed

\* C5: for every Response that went through the gate: when the validation
\* passed, the validated Response has status success, validation_passed
\* true and the original data; when it failed, it has status error, the
\* error 'Validation failed' and validation_passed false.
C5_GateRewrite ==
  \A k \in DOMAIN gateLog :
    LET entry == gateLog[k]
        original == results[entry.slot]
        validated == validatedResults[entry.slot]
    IN /\ entry.slot <= Len(validatedResults)
       /\ original.status = "success"
       /\ IF GatePassed(entry)
          THEN /\ validated.status = "success"
               /\ validated.validation_passed = "true"
               /\ validated.data = original.data
          ELSE /\ validated.status = "error"
               /\ validated.error = "Validation failed"
               /\ validated.validation_passed = "false"

\* the gate has passed one Response of a request and rejected the other
C5_Witness ==
  /\ Len(gateLog) = 2 /\ Len(validatedResults) = 2
  /\ GatePassed(gateLog[1]) /\ validatedResults[1].validation_passed = "true"
  /\ ~GatePassed(gateLog[2]) /\ validatedResults[2].validation_passed = "false"

\* the Responses of the validated list, in order, that have the status
RECURSIVE WithStatus(_, _)
WithStatus(rs, status) ==
  IF Len(rs) = 0 THEN <<>>
  ELSE (IF Head(rs).status = status THEN <<Head(rs)>> ELSE <<>>)
       \o WithStatus(Tail(rs), status)

\* process has composed a Result (it is the data of the Response it returns)
Composed == pc = "done" /\ final.status = "success"

Result == final.data

\* the message of a failure Result for the error strings, at most two
FailureMessage(errs) ==
  "Some operations failed: " \o
    (CASE Len(errs) = 1 -> errs[1].error
       [] Len(errs) = 2 -> errs[1].error \o ", " \o errs[2].error)

\* C8: when some validated Response has status error, the Result has
\* success=false, a message listing the error strings of the error Responses
\* in plan order, partial_results equal to the data of the Responses with
\* status success in plan order, and the intent name of the Intent.
C8_FailureResult ==
  (Composed /\ \E i \in DOMAIN validatedResults : validatedResults[i].status = "error") =>
    LET errs == WithStatus(validatedResults, "error")
        succ == WithStatus(validatedResults, "success")
    IN /\ Result.success = FALSE
       /\ Result.message = FailureMessage(errs)
       /\ Len(Result.partial_results) = Len(succ)
       /\ \A k \in DOMAIN succ : Result.partial_results[k] = succ[k].data
       /\ Result.intent = userIntent.intent
       /\ (Len(validatedResults) = 2 /\ Len(succ) = 1) =>
            Len(Result.partial_results) = 1

\* two agents were planned, the first succeeded and passed the gate, the
\* second answered with an error: partial_results is the first one's payload
C8_Witness ==
  /\ Composed /\ Len(validatedResults) = 2
  /\ validatedResults[1].status = "success"
  /\ validatedResults[1].data.kind = "object"
  /\ validatedResults[2].status = "error"
  /\ validatedResults[2].data.kind = "object"
  /\ Result.partial_results = <<validatedResults[1].data>>

\* the time the dispatcher has seen the call of a slot take
Latency(i) == calls[i].endTime - calls[i].startTime

RECURSIVE SumLatency(_)
SumLatency(n) == IF n = 0 THEN 0 ELSE Latency(n) + SumLatency(n - 1)

\* C9: when every validated Response is a success, the Result has
\* success=true, the phrase of the intent (the generic phrase for an intent
\* without one), results equal to the payloads in plan order, and a
\* processing_summary with the number of planned agents, the sum of the
\* measured latencies and the complexity of the Intent.
C9_SuccessResult ==
  (Composed /\ \A i \in DOMAIN validatedResults : validatedResults[i].status = "success") =>
    /\ Result.success = TRUE
    /\ Result.message = generateSuccessMessage(userIntent.intent)
    /\ userIntent.intent \in {"search_action", "general_query"} =>
         Result.message = "Task completed successfully"
    /\ userIntent.intent = "schedule_meeting" =>
         Result.message = "Meeting successfully scheduled across all platforms"
    /\ Len(Result.results) = Len(plan.agents)
    /\ \A i \in DOMAIN validatedResults : Result.results[i] = validatedResults[i].data
    /\ Result.intent = userIntent.intent
    /\ Result.processing_summary.total_agents = Len(plan.agents)
    /\ Result.processing_summary.total_time = SumLatency(Len(plan.agents))
    /\ Result.processing_summary.complexity = userIntent.complexity

\* two planned agents have both succeeded and passed the gate, each after
\* some time
C9_Witness ==
  /\ Composed /\ Len(plan.agents) = 2
  /\ \A i \in DOMAIN validatedResults :
       validatedResults[i].status = "success"
         /\ validatedResults[i].validation_passed = "true"
  /\ Result.success = TRUE
  /\ Result.processing_summary.total_agents = 2
  /\ Latency(1) > 0 /\ Latency(2) > 0
  /\ Result.processing_summary.total_time = Latency(1) + Latency(2)

\* the payload breaks nothing but the LinkedIn limit
OnlyOverLimit(entry) ==
  /\ entry.sourceAgent = "linkedin"
  /\ entry.data.kind = "object"
  /\ entry.data.post > LinkedInLimit
  /\ entry.data.content \in {"none", "safe"}
  /\ entry.data.datetime = -1 \/ entry.data.datetime >= now

\* C6: the gate's verdict is passed exactly when no issue has severity high;
\* a payload whose only issue is the medium platform-limit one passes, with
\* that issue and the trim recommendation in the ValidationResult.
C6_PassRule ==
  \A k \in DOMAIN gateLog :
    LET entry == gateLog[k] IN
    entry.response.status = "success" =>
      LET validation == entry.response.data.validation_result IN
      /\ entry.response.data.validation_passed = validation.passed
      /\ validation.passed <=>
           (\A i \in DOMAIN validation.issues : validation.issues[i].severity # "high")
      /\ OnlyOverLimit(entry) =>
           /\ validation.passed
           /\ validation.issues =
                <<Issue("platform_limit", "LinkedIn post exceeds character limit", "medium")>>
           /\ validation.recommendations = <<"Trim content to under 3000 characters">>
           /\ entry.response.data.approved_data = entry.data

\* the gate has passed a LinkedIn post longer than the limit
C6_Witness ==
  /\ Len(gateLog) = 1
  /\ OnlyOverLimit(gateLog[1])
  /\ gateLog[1].response.status = "success"
  /\ gateLog[1].response.data.validation_passed
  /\ Len(gateLog[1].response.data.validation_result.issues) = 1

\* the Response of the slot has been sent to the gate
Gated(slot) == \E k \in DOMAIN gateLog : gateLog[k].slot = slot

\* C7 as stated: a Response goes to the gate exactly when its status is
\* success and its data is not null; every other Response is in the validated
\* list unchanged.
C7_Original ==
  \A slot \in DOMAIN validatedResults :
    /\ Gated(slot) <=>
         (results[slot].status = "success" /\ results[slot].data.kind # "null")
    /\ ~Gated(slot) => validatedResults[slot] = results[slot]

\* C10 as stated: every element of partial_results is the data of a Response
\* with status success that passed the gate; without such a Response the
\* failure Result has no payloads.
C10_Original ==
  (Composed /\ ~Result.success) =>
    LET Good(i) == /\ validatedResults[i].status = "success"
                   /\ validatedResults[i].validation_passed = "true"
    IN /\ \A k \in DOMAIN Result.partial_results :
            \E i \in DOMAIN validatedResults :
              Good(i) /\ validatedResults[i].data = Result.partial_results[k]
       /\ (~ \E i \in DOMAIN validatedResults : Good(i)) =>
            Result.partial_results = <<>>

\* C10 (amended): partial_results is the data of the Responses whose status
\* is success after the gate; each of them passed the gate or was never sent
\* to it because its data is null or empty; the payload of a Response the
\* gate rejected is not in it; without a success after the gate it is empty.
C10_PartialResults ==
  (Composed /\ ~Result.success) =>
    LET succ == WithStatus(validatedResults, "success") IN
    /\ Len(Result.partial_results) = Len(succ)
    /\ \A k \in DOMAIN succ : Result.partial_results[k] = succ[k].data
    /\ \A i \in DOMAIN validatedResults :
         validatedResults[i].status = "success" =>
           /\ results[i].status = "success"
           /\ \/ Gated(i) /\ validatedResults[i].validation_passed = "true"
              \/ /\ ~Gated(i)
                 /\ results[i].data.kind \in {"null", "falsy"}
                 /\ validatedResults[i] = results[i]
    /\ \A k \in DOMAIN gateLog :
         ~GatePassed(gateLog[k]) => validatedResults[gateLog[k].slot].status = "error"
    /\ Len(succ) = 0 => Result.partial_results = <<>>

\* a failure Result after the gate passed one Response and rejected the
\* other: partial_results has the one payload
C10_Witness ==
  /\ Composed /\ ~Result.success
  /\ Len(gateLog) = 2
  /\ GatePassed(gateLog[1]) /\ ~GatePassed(gateLog[2])
  /\ Result.partial_results = <<results[1].data>>
  /\ results[2].data # results[1].data

\* processUserRequest has returned to the host
Replied == reply # NoReply

\* a capability agent of the request has thrown
SomeThrew == \E i \in DOMAIN calls : calls[i].state = "threw"

ApologeticMessage ==
  "I encountered an error processing your request. Please try again."

\* C11 as stated: when a capability agent throws, in a sequential or a
\* parallel plan, the host still gets an answer, and the answer is a Result
\* with success=false, the generic apologetic message and the message of
\* the error that was thrown.
C11_Original ==
  (Replied /\ SomeThrew) =>
    /\ DOMAIN reply = {"success", "message", "error"}
    /\ reply.success = FALSE
    /\ reply.message = ApologeticMessage
    /\ \E i \in DOMAIN calls :
         calls[i].state = "threw" /\ reply.error = plan.agents[i] \o " threw"

\* the error strings of the request in plan order: the string of the agent
\* (or of the dispatcher) for a slot answered with an error, the gate's
\* string for a slot the gate rejected
RECURSIVE ErrorStrings(_)
ErrorStrings(n) ==
  IF n = 0 THEN <<>>
  ELSE ErrorStrings(n - 1) \o
         (IF calls[n].response.status = "error" THEN <<calls[n].response.error>>
          ELSE IF validatedResults[n].status = "error" THEN <<"Validation failed">>
          ELSE <<>>)

RECURSIVE CommaList(_)
CommaList(strs) ==
  IF Len(strs) = 0 THEN ""
  ELSE IF Len(strs) = 1 THEN strs[1]
  ELSE strs[1] \o ", " \o CommaList(Tail(strs))

\* C12: within one request the process method of a planned agent is
\* invoked once if the agent is registered and never if it is not, also
\* when it answers with status error; the error string of a failing agent
\* is in the message of the final Result as the agent gave it.
C12_NoRetry ==
  Dispatching =>
    /\ \A i \in DOMAIN calls :
         /\ calls[i].invocations <= 1
         /\ plan.agents[i] \notin agents => calls[i].invocations = 0
         /\ (plan.agents[i] \in agents /\ calls[i].state # "idle") =>
              calls[i].invocations = 1
         /\ calls[i].invocations = 1 <=> Invoked(i)
    /\ (Composed /\ \E i \in DOMAIN calls : calls[i].response.status = "error") =>
         /\ Result.success = FALSE
         /\ Result.message =
              "Some operations failed: " \o CommaList(ErrorStrings(Len(calls)))
         /\ \A i \in DOMAIN calls :
              calls[i].response.status = "error" =>
                validatedResults[i].error = calls[i].response.error

\* two registered agents have each been invoked once and have both answered
\* with an error: the Result's message has their two strings
C12_Witness ==
  /\ Composed /\ Len(plan.agents) = 2
  /\ \A i \in DOMAIN calls :
       /\ calls[i].state = "returned" /\ calls[i].invocations = 1
       /\ calls[i].response.status = "error"
  /\ calls[1].response.error # calls[2].response.error
  /\ Result.message =
       "Some operations failed: " \o calls[1].response.error
         \o ", " \o calls[2].response.error

\* the interpreter has classified the text and the planner has planned
Planned == pc = "dispatch"

BothCalendars(platforms) == {"google", "microsoft"} \subseteq platforms

\* C13: for a scheduling intent whose platforms contain google and
\* microsoft the plan is exactly [google, microsoft] with parallel=true; a
\* text with a scheduling verb and keywords of both suites gives such an
\* intent.
C13_BothPlatforms ==
  Planned =>
    /\ (userIntent.intent = "schedule_meeting" /\ BothCalendars(userIntent.platforms)) =>
         /\ plan.agents = <<"google", "microsoft">>
         /\ plan.parallel = TRUE
    /\ (1 \in userInput.matches /\ BothCalendars(userInput.platforms)) =>
         /\ userIntent.intent = "schedule_meeting"
         /\ BothCalendars(userIntent.platforms)
         /\ plan = [agents |-> <<"google", "microsoft">>, parallel |-> TRUE]

\* a scheduling text that names all three platforms has been planned
C13_Witness ==
  /\ Planned
  /\ userIntent.intent = "schedule_meeting"
  /\ userIntent.platforms = {"google", "microsoft", "linkedin"}
  /\ plan.agents = <<"google", "microsoft">>
  /\ plan.parallel

\* C14 as stated: for a scheduling intent without both calendar platforms
\* the plan is the single agent of the detected platform, sequential.
C14_Original ==
  (Planned /\ userIntent.intent = "schedule_meeting"
     /\ ~BothCalendars(userIntent.platforms)) =>
    /\ Len(plan.agents) = 1
    /\ plan.agents[1] \in userIntent.platforms
    /\ plan.parallel = FALSE

\* C14 (amended): for a scheduling intent without both calendar platforms
\* the plan is one agent, google when google was detected and microsoft
\* otherwise (also when no calendar platform was detected), and the plan
\* has parallel=true.
C14_SinglePlatform ==
  (Planned /\ userIntent.intent = "schedule_meeting"
     /\ ~BothCalendars(userIntent.platforms)) =>
    /\ Len(plan.agents) = 1
    /\ "google" \in userIntent.platforms => plan.agents = <<"google">>
    /\ "google" \notin userIntent.platforms => plan.agents = <<"microsoft">>
    /\ plan.parallel = TRUE

\* a scheduling text that names google only has been planned
C14_Witness ==
  /\ Planned
  /\ userIntent.intent = "schedule_meeting"
  /\ userIntent.platforms = {"google"}
  /\ plan = [agents |-> <<"google">>, parallel |-> TRUE]

C16_FirstMatch ==
  /\ pc = "done" => ~userInput.isString
  /\ Planned =>
       LET m == userInput.matches IN
       /\ userInput.isString
       /\ userIntent.intent # ""
       /\ userIntent.confidence \in 0 .. 100
       /\ m = {} => userIntent.intent = "general_query" /\ userIntent.confidence = 50
       /\ m # {} =>
            LET first == CHOOSE i \in m : \A j \in m : i <= j IN
            /\ userIntent.intent = IntentRules[first].name
            /\ userIntent.confidence = IntentRules[first].weight
       /\ 1 \in m => userIntent.intent = "schedule_meeting" /\ userIntent.confidence = 90

\* a text that matches the mail rule and every rule after it is classified
\* as email_action
C16_Witness ==
  /\ Planned
  /\ userInput.matches = 2 .. Len(IntentRules)
  /\ userIntent.intent = "email_action"
  /\ userIntent.confidence = 80

\* the complexity score of the classified text
Score ==
  (IF Cardinality(userIntent.platforms) > 1 THEN 2 ELSE 0)
  + (IF userInput.people > 2 THEN 1 ELSE 0)
  + (IF userIntent.intent \in {"schedule_meeting", "content_creation"} THEN 1 ELSE 0)
  + (IF userInput.date \/ userInput.time THEN 1 ELSE 0)

\* C17: the complexity is high when the score is at least 3, medium when
\* it is at least 1 and low when it is 0, where the score is 2 for more
\* than one platform, plus 1 for more than two people, plus 1 for the
\* intents schedule_meeting and content_creation, plus 1 for a date or a
\* time.
C17_Complexity ==
  Planned =>
    /\ Score \in 0 .. 5
    /\ userIntent.complexity =
         (IF Score >= 3 THEN "high" ELSE IF Score >= 1 THEN "medium" ELSE "low")
    /\ (userInput.people = 2 /\ Score = 0) => userIntent.complexity = "low"

\* a text that names two people and nothing else that counts is of low
\* complexity
C17_Witness ==
  /\ Planned
  /\ userInput.people = 2
  /\ Cardinality(userIntent.platforms) = 1
  /\ userIntent.intent = "email_action"
  /\ ~userInput.date /\ ~userInput.time
  /\ userIntent.complexity = "low"

TemporalIssue == Issue("temporal", "Scheduled time is in the past", "high")

InSeq(x, seq) == \E i \in DOMAIN seq : seq[i] = x

\* C18: a payload with a scheduled time t gets the high temporal issue,
\* and fails, exactly when t is earlier than the time of the check; with
\* t equal to that time or later, and nothing else wrong, it passes.
C18_Temporal ==
  \A k \in DOMAIN gateLog :
    LET entry == gateLog[k]
        t == entry.data.datetime
    IN (entry.data.kind = "object" /\ t # -1) =>
         LET validation == entry.response.data.validation_result IN
         /\ entry.response.status = "success"
         /\ InSeq(TemporalIssue, validation.issues) <=> t < now
         /\ t < now => ~entry.response.data.validation_passed
         /\ (t >= now /\ entry.data.content \in {"none", "safe"}) =>
              /\ entry.response.data.validation_passed
              /\ entry.response.data.approved_data = entry.data

\* the gate has passed a payload scheduled for the very time of the check
C18_Witness ==
  /\ Len(gateLog) = 1
  /\ gateLog[1].data.datetime = now
  /\ gateLog[1].data.content = "none"
  /\ gateLog[1].response.data.validation_passed
  /\ gateLog[1].response.data.validation_result.issues = <<>>

Sensitive(data) ==
  data.kind = "object" /\ data.content \in {"keyword", "ssn", "card16"}

\* C19: a success Response whose data has a content with a sensitive
\* pattern (keyword, social security number, 16 digits) is sent to the
\* gate and leaves it with status error and validation_passed false; its
\* payload is not among the payloads of the Result, which is a failure.
C19_SensitiveRejected ==
  /\ \A slot \in DOMAIN validatedResults :
       (results[slot].status = "success" /\ Sensitive(results[slot].data)) =>
         /\ Gated(slot)
         /\ validatedResults[slot].status = "error"
         /\ validatedResults[slot].validation_passed = "false"
         /\ Composed =>
              /\ Result.success = FALSE
              /\ Len(Result.partial_results)
                   = Len(WithStatus(validatedResults, "success"))
  /\ (Composed /\ ~Result.success) =>
       \A k \in DOMAIN Result.partial_results : ~Sensitive(Result.partial_results[k])
  /\ (Composed /\ Result.success) =>
       \A k \in DOMAIN Result.results : ~Sensitive(Result.results[k])

\* the first agent's payload had a social security number, the second's
\* was clean: the Result has the second payload only
C19_Witness ==
  /\ Composed /\ Len(validatedResults) = 2
  /\ results[1].status = "success" /\ results[1].data.content = "ssn"
  /\ validatedResults[1].status = "error"
  /\ validatedResults[1].validation_passed = "false"
  /\ validatedResults[2].status = "success"
  /\ Result.partial_results = <<results[2].data>>

\* C20 as stated: the validation request for a Response names, as source
\* agent, the agent of the plan that produced the Response.
C20_Original ==
  \A k \in DOMAIN gateLog :
    gateLog[k].sourceAgent = plan.agents[gateLog[k].slot]

\* C21 as stated, its second half: submit does not return while an agent it
\* has invoked has not returned.
C21_Original ==
  Replied => \A i \in DOMAIN calls : calls[i].state # "running"

\* a call of the request is still pending
Pending(i) == calls[i].state = "running"

\* C21 (amended): when every invoked agent eventually completes, submit
\* eventually returns; submit does not return while an invoked agent is
\* pending, except in a parallel plan in which another agent has thrown:
\* the join is given up at once and submit returns the error.
C21_Completion ==
  /\ [](Replied =>
         \A i \in DOMAIN calls :
           Pending(i) =>
             /\ plan.parallel
             /\ final.status = "error"
             /\ \E j \in DOMAIN calls : j # i /\ calls[j].state = "threw")
  /\ [](pc = "done" => \A i \in DOMAIN calls : Pending(i) => plan.parallel /\ SomeThrew)
  /\ (pc = "interpret" ~> Replied)

\* submit has returned the Result of a parallel plan whose two agents have
\* both answered, the second before the first
C21_Witness ==
  /\ Replied /\ plan.parallel /\ Len(plan.agents) = 2
  /\ order = <<2, 1>>
  /\ reply.status = "success"
  /\ \A i \in DOMAIN calls : calls[i].state = "returned"

C23_Original ==
  (Replied /\ final.status = "success") =>
    /\ {"success", "message", "intent"} \subseteq DOMAIN reply
    /\ reply.success = Result.success
    /\ reply.message = Result.message
    /\ reply.intent = Result.intent

\* C24: the quality gate checks nothing of a request before every planned
\* agent invocation of the request has returned, so in a sequential plan
\* what agent k+1 receives as previousResult is the output of agent k as the
\* agent returned it, also when the gate rejects that output afterwards.
C24_GateAfterDispatch ==
  /\ Len(gateLog) > 0 =>
        /\ Len(results) = Len(calls)
        /\ \A i \in DOMAIN calls : Answered(i)
  /\ \A k \in DOMAIN calls :
        (~plan.parallel /\ k > 1 /\ Invoked(k) /\ Eligible(results[k - 1])) =>
          calls[k].envelope.context.previousResult = results[k - 1].data

\* the second agent of a sequential plan has been given the output of the
\* first one, and the gate has then rejected that output
C24_Witness ==
  /\ ~plan.parallel /\ Len(calls) = 2
  /\ calls[2].state = "returned"
  /\ Eligible(results[1])
  /\ calls[2].envelope.context.previousResult = results[1].data
  /\ Len(validatedResults) >= 1
  /\ validatedResults[1].status = "error"
  /\ validatedResults[1].error = "Validation failed"

\* C25 as stated: a Result with success=true means that every planned agent
\* has returned status success, and its results list has as many entries as
\* processing_summary.total_agents says.
C25_Original ==
  (Composed /\ Result.success) =>
    /\ \A i \in DOMAIN results : results[i].status = "success"
    /\ Len(Result.results) = Result.processing_summary.total_agents

\* the slots of the Responses the gate has rejected
RejectedSlots == { gateLog[k].slot : k \in { j \in DOMAIN gateLog : ~GatePassed(gateLog[j]) } }

\* the slots whose payload the composer puts into the Result, in order
RECURSIVE ShownSlots(_, _)
ShownSlots(rs, i) ==
  IF i > Len(rs) THEN <<>>
  ELSE (IF rs[i].status = "success" THEN <<i>> ELSE <<>>) \o ShownSlots(rs, i + 1)

\* the payload list of the Result: results of a success Result,
\* partial_results of a failure Result
Shown == IF Result.success THEN Result.results ELSE Result.partial_results

\* C26: the payload list of the final Result (results or partial_results)
\* is made of the payloads of Responses the gate did not reject: no element
\* of it comes from a rejected Response, whatever the plan and the outcomes
\* of the agents; a request with a rejected Response has no results list.
C26_RejectedWithheld ==
  Composed =>
    LET slots == ShownSlots(validatedResults, 1) IN
    /\ Len(Shown) = Len(slots)
    /\ \A k \in DOMAIN slots :
         /\ Shown[k] = validatedResults[slots[k]].data
         /\ slots[k] \notin RejectedSlots
    /\ RejectedSlots # {} => ~Result.success
    /\ Len(Shown) <= Len(validatedResults) - Cardinality(RejectedSlots)

\* the gate has rejected the payload of the first agent and passed the one
\* of the second: the Result shows the second payload only
C26_Witness ==
  /\ Composed
  /\ Len(gateLog) = 2
  /\ RejectedSlots = {1}
  /\ Truthy(results[1].data)
  /\ Result.partial_results = <<results[2].data>>

\* C27: the gate keeps count and order: the validated list grows slot by
\* slot along the dispatcher's list, its i-th element has the id and the
\* measured latency of the i-th dispatched Response, which is the Response
\* of the call for the i-th planned agent; when the Result is composed both
\* lists have one element per planned agent.
C27_CountAndOrder ==
  /\ Len(validatedResults) <= Len(results)
  /\ \A i \in DOMAIN validatedResults :
       /\ validatedResults[i].id = results[i].id
       /\ validatedResults[i].processing_time = results[i].processing_time
       /\ results[i] = calls[i].response
       /\ calls[i].state = "returned" => MadeBy(results[i], plan.agents[i])
  /\ Composed =>
       /\ Len(validatedResults) = Len(results)
       /\ Len(results) = Len(plan.agents)

\* a composed request of two agents with different latencies, one Response
\* rewritten by the gate and one pushed as it was
C27_Witness ==
  /\ Composed
  /\ Len(validatedResults) = 2
  /\ Len(gateLog) = 1
  /\ results[1].processing_time # results[2].processing_time
  /\ validatedResults[1].id # validatedResults[2].id
  /\ \E i \in 1 .. 2 : validatedResults[i] # results[i]

\* the interpreter has answered and process has no intent: the answer was
\* not a success
InterpretFailed == pc \notin {"idle", "interpret"} /\ userIntent = NoIntent

\* C28: when the classifier answers with a status other than success the
\* request is over with the error Response 'Failed to interpret user input':
\* there is no plan, no capability agent is invoked and the gate checks
\* nothing, and that Response is what the host receives.
C28_InterpretFailure ==
  InterpretFailed =>
    /\ pc = "done"
    /\ final.status = "error"
    /\ final.error = "Failed to interpret user input"
    /\ final.data = NullData
    /\ plan = NoPlan
    /\ calls = <<>> /\ results = <<>>
    /\ gateLog = <<>> /\ validatedResults = <<>>
    /\ Replied => (reply.status = "error" /\ reply.error = final.error)

\* the host has received the answer to a request the classifier failed on,
\* with capability agents registered
C28_Witness ==
  /\ InterpretFailed
  /\ Replied
  /\ reply.error = "Failed to interpret user input"
  /\ {"task", "content"} \subseteq agents

\* C29: every plan made for a classified request has one or two agents,
\* no agent twice, only capability agents (never the interpreter, the
\* quality agent or the orchestrator), and is parallel only when the intent
\* is schedule_meeting.
C29_PlanShape ==
  Planned =>
    /\ Len(plan.agents) \in 1 .. 2
    /\ \A i, j \in DOMAIN plan.agents : i # j => plan.agents[i] # plan.agents[j]
    /\ \A i \in DOMAIN plan.agents :
         /\ plan.agents[i] \in Capability
         /\ plan.agents[i] \notin {"interpreter", "qa", "chief"}
    /\ plan.parallel => userIntent.intent = "schedule_meeting"
    /\ Len(calls) = Len(plan.agents)

\* a two-agent sequential plan made for a text that names no platform
C29_Witness ==
  /\ Planned
  /\ userIntent.intent = "email_action"
  /\ userIntent.platforms = {}
  /\ plan = [agents |-> <<"content", "microsoft">>, parallel |-> FALSE]

\* ------------------------------------------- the integrated system
\* (ChiefOfStaffSystemIntegrated, database-backed)
\* the requests one system object serves in a run
MaxRequests == 2

\* the modules initializeSystem imports, one await each, before it creates
\* the orchestrator
InitModules ==
  << "chief_of_staff_core", "integration_agents", "content_linkedin_agents",
     "task_management_webapp" >>

\* the platforms getUserIntegrations can report
IntegrationPlatforms == {"google", "microsoft", "linkedin"}

CoreVars == << agents, now, pc, message, userIntent, plan, calls, order, idx,
               currentContext, results, gateLog, validatedResults, final, reply,
               userInput, conversationHistory >>

\* the catch block of processUserRequest: what the host receives
CaughtResult(errorMessage) ==
  [ success |-> FALSE,
    message |-> "I encountered an error processing your request. Please try again.",
    error |-> errorMessage ]

\* a dereference of this.chiefOfStaff by a request
Use(op, g) == [op |-> op, initialized |-> g.chiefOfStaff]

\* the TypeError of a method call on this.chiefOfStaff
UseError(op, g) ==
  IF g.chiefOfStaff
  THEN "this.chiefOfStaff." \o op \o " is not a function"
  ELSE "Cannot read properties of undefined (reading '" \o op \o "')"

\* initializePlatformAgents runs on from g to its next await, or to its end:
\* an integration whose agent exists is passed over, the agent of another
\* one is imported, then the content agent if there is none
PlatformsRunTo(g, g2) ==
  LET todo == g.pending \ g.created IN
  \/ \E platform \in todo :
       g2 = [g EXCEPT !.request = "importPlatform", !.current = platform,
                      !.pending = todo \ {platform}]
  \/ /\ todo = {} /\ "content" \notin g.created
     /\ g2 = [g EXCEPT !.request = "importContent", !.current = "content",
                       !.pending = {}]
  \/ /\ todo = {} /\ "content" \in g.created
     /\ g2 = [g EXCEPT !.request = "orchestrate", !.current = "none",
                       !.pending = {}]

\* new ChiefOfStaffSystemIntegrated(): the constructor starts
\* initializeSystem, which runs to its first await, and returns
Construct ==
  /\ integrated.init = "none"
  /\ integrated' = [integrated EXCEPT !.init = "importing"]
  /\ UNCHANGED CoreVars

\* initializeSystem: one of the first imports is there
InitializeSystemImport ==
  /\ integrated.init = "importing"
  /\ integrated.loaded < Len(InitModules) - 1
  /\ integrated' = [integrated EXCEPT !.loaded = @ + 1]
  /\ UNCHANGED CoreVars

\* initializeSystem: the last import is there; the orchestrator and the
\* task agent are created and the task agent is registered
InitializeSystemRegisters ==
  /\ integrated.init = "importing"
  /\ integrated.loaded = Len(InitModules) - 1
  /\ integrated' = [integrated EXCEPT !.loaded = @ + 1,
                                      !.chiefOfStaff = TRUE,
                                      !.created = @ \cup {"task"},
                                      !.registry = {"task"},
                                      !.init = "done"]
  /\ UNCHANGED CoreVars

\* the host calls processUserRequest on the constructed system, with or
\* without a conversation id: the call runs to await db.trackEvent
IntegratedRequest ==
  /\ integrated.init # "none"
  /\ integrated.request = "none"
  /\ integrated.served < MaxRequests
  /\ \E conversation \in {"given", "none"} :
       integrated' = [integrated EXCEPT !.request = "trackEvent",
                                        !.conversation = conversation,
                                        !.error = "none",
                                        !.outcome = [status |-> "none"]]
  /\ UNCHANGED CoreVars

\* db.trackEvent has returned (it logs its error); with a conversation id
\* the call runs on to await db.getUserIntegrations
TrackEventReturns ==
  /\ integrated.request = "trackEvent"
  /\ integrated' = [integrated EXCEPT !.request =
                       IF integrated.conversation = "given"
                       THEN "getUserIntegrations" ELSE "createConversation"]
  /\ UNCHANGED CoreVars

CreateConversationReturns ==
  /\ integrated.request = "createConversation"
  /\ integrated' = [integrated EXCEPT !.request = "getUserIntegrations",
                                      !.conversation = "created"]
  /\ UNCHANGED CoreVars

\* db.createConversation throws the error of the database
CreateConversationThrows ==
  /\ integrated.request = "createConversation"
  /\ integrated' = [integrated EXCEPT !.request = "catch",
                                      !.error = "database error"]
  /\ UNCHANGED CoreVars

\* db.getUserIntegrations has returned the integrations of the user;
\* initializePlatformAgents starts
GetUserIntegrationsReturns ==
  /\ integrated.request = "getUserIntegrations"
  /\ \E connected \in SUBSET IntegrationPlatforms :
       PlatformsRunTo([integrated EXCEPT !.pending = connected], integrated')
  /\ UNCHANGED CoreVars

GetUserIntegrationsThrows ==
  /\ integrated.request = "getUserIntegrations"
  /\ integrated' = [integrated EXCEPT !.request = "catch",
                                      !.error = "database error"]
  /\ UNCHANGED CoreVars

\* initializePlatformAgents: the import for a platform or for the content
\* agent is there; the agent is created and kept, and
\* this.chiefOfStaff.addAgent is called
AgentImported ==
  /\ integrated.request \in {"importPlatform", "importContent"}
  /\ LET agentType == integrated.current
         g == [integrated EXCEPT !.created = @ \cup {agentType},
                                 !.reached = @ \cup {Use("addAgent", integrated)}]
     IN IF integrated.chiefOfStaff
        THEN IF integrated.request = "importPlatform"
             THEN PlatformsRunTo([g EXCEPT !.registry = @ \cup {agentType}], integrated')
             ELSE integrated' = [g EXCEPT !.registry = @ \cup {agentType},
                                          !.request = "orchestrate",
                                          !.current = "none"]
        ELSE integrated' = [g EXCEPT !.request = "catch", !.current = "none",
                                     !.pending = {},
                                     !.error = UseError("addAgent", integrated)]
  /\ UNCHANGED CoreVars

\* await this.chiefOfStaff.processUserRequest(userInput, userId): the
\* orchestrator, a ChiefOfStaffAgent, has no such method
Orchestrate ==
  /\ integrated.request = "orchestrate"
  /\ integrated' = [integrated EXCEPT
                      !.reached = @ \cup {Use("processUserRequest", integrated)},
                      !.request = "catch",
                      !.error = UseError("processUserRequest", integrated)]
  /\ UNCHANGED CoreVars

\* the catch block: the error is tracked and the host gets its answer
CatchReturns ==
  /\ integrated.request = "catch"
  /\ integrated' = [integrated EXCEPT !.request = "none",
                                      !.outcome = CaughtResult(integrated.error),
                                      !.served = @ + 1]
  /\ UNCHANGED CoreVars

IntegratedInit == Init /\ agents = {"interpreter", "qa"}

IntegratedNext ==
  \/ Construct
  \/ InitializeSystemImport
  \/ InitializeSystemRegisters
  \/ IntegratedRequest
  \/ TrackEventReturns
  \/ CreateConversationReturns
  \/ CreateConversationThrows
  \/ GetUserIntegrationsReturns
  \/ GetUserIntegrationsThrows
  \/ AgentImported
  \/ Orchestrate
  \/ CatchReturns

SpecIntegrated == IntegratedInit /\ [][IntegratedNext]_vars

\* C30 as stated: whenever a processUserRequest call of the integrated
\* system has reached the orchestrator, to register an agent or to process
\* the request, initializeSystem had created the orchestrator before.
C30_Original ==
  \A use \in integrated.reached : use.initialized

====
